---------------------------- MODULE Spec2Model ----------------------------
(***************************************************************************)
(* A model of WildQt's colour value classes (src/WildQt/b.py): LAColour,   *)
(* which stores a colour as four Python floats and converts between RGB,   *)
(* RGBFull, HSV, CMYK and hexadecimal strings, and LAMColour, which keeps  *)
(* the colour in a host (Maya) colour object.                              *)
(*                                                                         *)
(* The conversions truncate floating-point results with int(), so their    *)
(* results depend on the rounding of every operation.  Python floats are   *)
(* IEEE-754 binary64; they are modelled here exactly: a float is a sign, a *)
(* 53-bit significand and a binary exponent, and every operation rounds to *)
(* nearest, ties to even.  TLC's integers are 32 bits wide, so the         *)
(* significand is a natural number kept as a sequence of limbs.            *)
(***************************************************************************)
EXTENDS Integers, Sequences, FiniteSets, TLC

(***************************************************************************)
(* Natural numbers of any size: little-endian sequences of limbs in radix  *)
(* Base, with no leading zero limb; << >> is zero.                         *)
(***************************************************************************)
Base == 32768
LimbBits == 15

RECURSIVE NNorm(_)
NNorm(a) ==
    IF a = << >> THEN << >>
    ELSE IF a[Len(a)] = 0 THEN NNorm(SubSeq(a, 1, Len(a) - 1))
    ELSE a

RECURSIVE NFromInt(_)
NFromInt(n) ==
    IF n = 0 THEN << >> ELSE <<n % Base>> \o NFromInt(n \div Base)

RECURSIVE NToInt(_)
NToInt(a) ==
    IF a = << >> THEN 0 ELSE a[1] + Base * NToInt(Tail(a))

NLimb(a, i) == IF i <= Len(a) THEN a[i] ELSE 0

RECURSIVE NAddC(_, _, _, _)
NAddC(a, b, i, c) ==
    IF i > Len(a) /\ i > Len(b)
    THEN (IF c = 0 THEN << >> ELSE <<c>>)
    ELSE LET x == NLimb(a, i) + NLimb(b, i) + c
         IN  <<x % Base>> \o NAddC(a, b, i + 1, x \div Base)

NAdd(a, b) == NAddC(a, b, 1, 0)

\* a - b for a >= b
RECURSIVE NSubB(_, _, _, _)
NSubB(a, b, i, brw) ==
    IF i > Len(a) THEN << >>
    ELSE LET x == a[i] - NLimb(b, i) - brw
         IN  <<x % Base>> \o NSubB(a, b, i + 1, IF x < 0 THEN 1 ELSE 0)

NSub(a, b) == NNorm(NSubB(a, b, 1, 0))

\* -1, 0, 1 as a < b, a = b, a > b
RECURSIVE NCmpFrom(_, _, _)
NCmpFrom(a, b, i) ==
    IF i = 0 THEN 0
    ELSE IF a[i] < b[i] THEN -1
    ELSE IF a[i] > b[i] THEN 1
    ELSE NCmpFrom(a, b, i - 1)

NCmp(a, b) ==
    IF Len(a) < Len(b) THEN -1
    ELSE IF Len(a) > Len(b) THEN 1
    ELSE NCmpFrom(a, b, Len(a))

\* a * d + c for a limb d
RECURSIVE NMulSmallC(_, _, _, _)
NMulSmallC(a, d, i, c) ==
    IF i > Len(a)
    THEN (IF c = 0 THEN << >> ELSE <<c>>)
    ELSE LET x == a[i] * d + c
         IN  <<x % Base>> \o NMulSmallC(a, d, i + 1, x \div Base)

NMulSmall(a, d) == IF d = 0 THEN << >> ELSE NMulSmallC(a, d, 1, 0)

\* a * Base
NShiftLimb(a) == IF a = << >> THEN << >> ELSE <<0>> \o a

RECURSIVE NMul(_, _)
NMul(a, b) ==
    IF b = << >> \/ a = << >> THEN << >>
    ELSE NAdd(NMulSmall(a, b[1]), NShiftLimb(NMul(a, Tail(b))))

RECURSIVE NZeros(_)
NZeros(n) == IF n = 0 THEN << >> ELSE <<0>> \o NZeros(n - 1)

\* a * 2^k
NShl(a, k) ==
    IF a = << >> THEN << >>
    ELSE NZeros(k \div LimbBits) \o NMulSmall(a, 2 ^ (k % LimbBits))

\* floor(a / d) for a limb d > 0, from the top limb down
RECURSIVE NDivSmallR(_, _, _, _)
NDivSmallR(a, d, i, r) ==
    IF i = 0 THEN << >>
    ELSE LET x == r * Base + a[i]
         IN  NDivSmallR(a, d, i - 1, x % d) \o <<x \div d>>

NDivSmall(a, d) == NNorm(NDivSmallR(a, d, Len(a), 0))

\* floor(a / 2^k)
NShr(a, k) ==
    IF k \div LimbBits >= Len(a) THEN << >>
    ELSE NDivSmall(SubSeq(a, (k \div LimbBits) + 1, Len(a)), 2 ^ (k % LimbBits))

RECURSIVE BitLenInt(_)
BitLenInt(n) == IF n = 0 THEN 0 ELSE 1 + BitLenInt(n \div 2)

NBitLen(a) ==
    IF a = << >> THEN 0 ELSE LimbBits * (Len(a) - 1) + BitLenInt(a[Len(a)])

\* One digit of a long division: the largest d with b * d <= r, for b with
\* a top limb of at least Base / 2 and r < b * Base.  The estimate from the
\* top limbs is d, d + 1 or d + 2.
NDigit(r, b) ==
    LET n    == Len(b)
        top  == NLimb(r, n + 1) * Base + NLimb(r, n)
        est  == top \div b[n]
        qhat == IF est > Base - 1 THEN Base - 1 ELSE est
    IN  IF NCmp(NMulSmall(b, qhat), r) <= 0 THEN qhat
        ELSE IF NCmp(NMulSmall(b, qhat - 1), r) <= 0 THEN qhat - 1
        ELSE qhat - 2

\* One step of a long division by b: p is the quotient and the remainder so
\* far, limb the next limb of the dividend, r2 the remainder with that limb
\* brought down and d the next digit of the quotient
NDivStepDigit(p, r2, b, d) ==
    [q |-> IF d = 0 THEN NShiftLimb(p.q) ELSE <<d>> \o p.q,
     r |-> NSub(r2, NMulSmall(b, d))]

NDivStepRem(p, r2, b) == NDivStepDigit(p, r2, b, NDigit(r2, b))

NDivStep(p, limb, b) ==
    IF p.r = << >> /\ limb = 0 THEN [q |-> NShiftLimb(p.q), r |-> << >>]
    ELSE NDivStepRem(p, <<limb>> \o p.r, b)

\* Long division of the limbs i, i+1, ... of a by b (top limb >= Base / 2);
\* the top Len(b) - 1 limbs of a are less than b and start the remainder
RECURSIVE NDivModR(_, _, _)
NDivModR(a, b, i) ==
    IF i > Len(a) - Len(b) + 1
    THEN [q |-> << >>, r |-> SubSeq(a, i, Len(a))]
    ELSE NDivStep(NDivModR(a, b, i + 1), a[i], b)

NUnscale(p, s) == [q |-> p.q, r |-> NShr(p.r, s)]

NDivModScaled(a, b, s) == NUnscale(NDivModR(NShl(a, s), NShl(b, s), 1), s)

\* [q |-> floor(a / b), r |-> a mod b] for b > 0: both are first scaled to
\* bring the top limb of b to at least Base / 2
NDivMod(a, b) == NDivModScaled(a, b, LimbBits - BitLenInt(b[Len(b)]))

(***************************************************************************)
(* Python floats.  A float is [sgn, man, exp] and stands for               *)
(* sgn * man * 2^exp, with sgn in {-1, 0, 1} and man a natural number of   *)
(* exactly Precision bits; zero is FZero.  The inputs of the model keep    *)
(* every result far from the overflow and underflow thresholds, so the     *)
(* exponent is an unbounded integer; -0.0 is not told apart from 0.0 (no   *)
(* operation of the colour classes does).                                  *)
(*                                                                         *)
(* An intermediate result that is used more than once is handed on as a    *)
(* parameter of the next definition.                                       *)
(***************************************************************************)
Precision == 53

FZero == [sgn |-> 0, man |-> << >>, exp |-> 0]

Float(s, m, e) == [sgn |-> s, man |-> m, exp |-> e]

\* q2 is the significand rounded up: it may have grown to prec + 1 bits
FRoundCarry(s, e, q2, prec) ==
    IF NBitLen(q2) > prec THEN Float(s, NShr(q2, 1), e + 1)
    ELSE Float(s, q2, e)

\* q is the significand cut to prec bits, c tells whether what was cut off
\* is less than (-1), equal to (0) or more than (1) half a unit of q
FRoundHalf(s, e, q, c, prec) ==
    IF c > 0 \/ (c = 0 /\ q[1] % 2 = 1) THEN FRoundCarry(s, e, NAdd(q, <<1>>), prec)
    ELSE Float(s, q, e)

FRoundCut(s, n, e, sh, q, prec) ==
    FRoundHalf(s, e + sh, q, NCmp(NSub(n, NShl(q, sh)), NShl(<<1>>, sh - 1)), prec)

\* s * n * 2^e, n having len bits, with a significand of prec bits
FRoundLen(s, n, e, len, prec) ==
    IF len <= prec
    THEN Float(s, NShl(n, prec - len), e - (prec - len))
    ELSE FRoundCut(s, n, e, len - prec, NShr(n, len - prec), prec)

\* the float nearest to s * n * 2^e, ties to the even significand
FRound(s, n, e) ==
    IF s = 0 \/ n = << >> THEN FZero
    ELSE FRoundLen(s, n, e, NBitLen(n), Precision)

\* float(i) for an integer i
FFromInt(i) ==
    IF i < 0 THEN FRound(-1, NFromInt(-i), 0) ELSE FRound(1, NFromInt(i), 0)

FAbs(a) == [a EXCEPT !.sgn = IF a.sgn = 0 THEN 0 ELSE 1]

MinInt(x, y) == IF x < y THEN x ELSE y

\* the sum of sa * na * 2^e and sb * nb * 2^e, c being NCmp(na, nb)
FAddCompared(sa, sb, e, na, nb, c) ==
    FRound(IF sa = sb \/ c > 0 THEN sa ELSE sb,
           IF sa = sb THEN NAdd(na, nb)
           ELSE IF c >= 0 THEN NSub(na, nb) ELSE NSub(nb, na),
           e)

FAddAligned(sa, sb, e, na, nb) == FAddCompared(sa, sb, e, na, nb, NCmp(na, nb))

FAddAt(a, b, e) ==
    FAddAligned(a.sgn, b.sgn, e, NShl(a.man, a.exp - e), NShl(b.man, b.exp - e))

FAdd(a, b) ==
    IF a.sgn = 0 THEN b
    ELSE IF b.sgn = 0 THEN a
    ELSE FAddAt(a, b, MinInt(a.exp, b.exp))

FSub(a, b) == FAdd(a, [b EXCEPT !.sgn = -b.sgn])

FMul(a, b) ==
    IF a.sgn = 0 \/ b.sgn = 0 THEN FZero
    ELSE FRound(a.sgn * b.sgn, NMul(a.man, b.man), a.exp + b.exp)

\* d is the quotient of the significands to Precision + 3 bits with its
\* remainder, which becomes a sticky bit
FDivQuotient(s, e, d) ==
    FRound(s, NAddC(d.q, d.q, 1, IF d.r = << >> THEN 0 ELSE 1), e)

\* a / b for b # 0
FDiv(a, b) ==
    IF a.sgn = 0 THEN FZero
    ELSE FDivQuotient(a.sgn * b.sgn, a.exp - b.exp - (Precision + 4),
                      NDivMod(NShl(a.man, Precision + 3), b.man))

\* -1, 0, 1 as a < b, a = b, a > b
FCmp(a, b) ==
    IF a.sgn # b.sgn THEN (IF a.sgn < b.sgn THEN -1 ELSE 1)
    ELSE IF a.sgn = 0 THEN 0
    ELSE IF a.exp # b.exp THEN (IF a.exp < b.exp THEN -a.sgn ELSE a.sgn)
    ELSE a.sgn * NCmp(a.man, b.man)

FLt(a, b) == FCmp(a, b) < 0
FLe(a, b) == FCmp(a, b) <= 0

\* Python's max(a, b) and min(a, b): the first argument unless the second
\* is strictly greater (smaller)
FMax(a, b) == IF FLt(a, b) THEN b ELSE a
FMin(a, b) == IF FLt(b, a) THEN b ELSE a

\* int(a): truncation toward zero, as an integer
FTrunc(a) ==
    IF a.sgn = 0 THEN 0
    ELSE IF a.exp >= 0 THEN a.sgn * NToInt(NShl(a.man, a.exp))
    ELSE a.sgn * NToInt(NShr(a.man, -a.exp))

\* m is fmod(a, b), which has the sign of a
FModSigned(m, b) == IF m.sgn # 0 /\ m.sgn # b.sgn THEN FAdd(m, b) ELSE m

FModAt(a, b, e) ==
    FModSigned(FRound(a.sgn,
                      NDivMod(NShl(a.man, a.exp - e), NShl(b.man, b.exp - e)).r,
                      e),
               b)

\* Python's a % b for floats, b # 0: the exact fmod, then b added when the
\* signs of the result and of b differ
FMod(a, b) ==
    IF a.sgn = 0 THEN FZero ELSE FModAt(a, b, MinInt(a.exp, b.exp))

(***************************************************************************)
(* The numbers and the colour spaces of b.py.  A Python int is kept as the *)
(* float it compares equal to; the ints of the model are all far below     *)
(* 2^53, where that float is exact.                                        *)
(***************************************************************************)
F0   == FZero
F1   == FFromInt(1)
F100 == FFromInt(100)
\* the 255.0 of the RGBFull and the hexadecimal conversions
MaxChannel == 255
F255 == FFromInt(MaxChannel)
\* the literal 0.01: the float nearest to 1/100
F001 == FDiv(FFromInt(1), FFromInt(100))

\* int(x), as a Python number
PyInt(x) == FFromInt(FTrunc(x))

\* class Colour(Enum); NoSpace is None, a call that names no colour space
Colour  == {"RGB", "RGBFull", "HSV", "HEX", "HEXLONG", "CMY", "CMYK"}
NoSpace == "None"

\* What a call does: ok with a value, or raise with the exception's name.
\* kind is "list", "str" or "None", the type of the value.
Ok(kind, val) == [exc |-> "none", kind |-> kind, val |-> val]
Raise(name)   == [exc |-> name, kind |-> "None", val |-> << >>]

\* the positional argument i of a call f(*args), or the parameter's default
Arg(args, i, default) == IF i <= Len(args) THEN args[i] ELSE default

(***************************************************************************)
(* LAColour's conversions.  A colour is the list _colour: four floats      *)
(* <<r, g, b, a>>.  A setter is given the clamp flag and its arguments and *)
(* yields the new _colour; a getter is given _colour.                      *)
(***************************************************************************)
_clamp(clamp_values, val, minVal, maxVal) ==
    IF clamp_values THEN FMax(FMin(val, maxVal), minVal) ELSE val

_getRGB(colour) == colour

\* [self._clamp(x, 0.0, 1.0) for x in [r, g, b, a]]
ClampEach(clamp_values, rgba) ==
    [i \in 1..4 |-> _clamp(clamp_values, rgba[i], F0, F1)]

_setRGB(clamp_values, r, g, b, a) == ClampEach(clamp_values, <<r, g, b, a>>)

_getRGBFull(colour) ==
    [i \in 1..3 |-> PyInt(FMul(colour[i], F255))] \o <<colour[4]>>

\* A variant of _setRGBFull that divides by 256.0 where _getRGBFull
\* multiplies by 255.0
_setRGBFull_256(clamp_values, r, g, b, a) ==
    _setRGB(clamp_values, FDiv(r, FFromInt(256)), FDiv(g, FFromInt(256)),
            FDiv(b, FFromInt(256)), a)

_setRGBFull(clamp_values, r, g, b, a) ==
    _setRGB(clamp_values, FDiv(r, F255), FDiv(g, F255), FDiv(b, F255), a)

\* hue, before int(): the branch is chosen by the channel equal to Cmax
Hue(colour, Cmax, Cmin, delta) ==
    IF Cmax = Cmin THEN F0
    ELSE IF Cmax = colour[1]
    THEN FMul(FFromInt(60), FMod(FDiv(FSub(colour[2], colour[3]), delta), FFromInt(6)))
    ELSE IF Cmax = colour[2]
    THEN FMul(FFromInt(60), FAdd(FDiv(FSub(colour[3], colour[1]), delta), FFromInt(2)))
    ELSE FMul(FFromInt(60), FAdd(FDiv(FSub(colour[1], colour[2]), delta), FFromInt(4)))

Sat(Cmax, delta) == IF Cmax = F0 THEN F0 ELSE FDiv(delta, Cmax)

\* A variant of HSVOfDelta in which the value percentage is rounded to the
\* nearest integer instead of truncated
HSVOfDelta_Rounded(colour, Cmax, Cmin, delta) ==
    <<PyInt(Hue(colour, Cmax, Cmin, delta)), PyInt(FMul(Sat(Cmax, delta), F100)),
      PyInt(FAdd(FMul(Cmax, F100), FDiv(F1, FFromInt(2)))), colour[4]>>

HSVOfDelta(colour, Cmax, Cmin, delta) ==
    <<PyInt(Hue(colour, Cmax, Cmin, delta)), PyInt(FMul(Sat(Cmax, delta), F100)),
      PyInt(FMul(Cmax, F100)), colour[4]>>

HSVOfRange(colour, Cmax, Cmin) ==
    HSVOfDelta(colour, Cmax, Cmin, FSub(Cmax, Cmin))

_getHSV(colour) ==
    HSVOfRange(colour, FMax(FMax(colour[1], colour[2]), colour[3]),
               FMin(FMin(colour[1], colour[2]), colour[3]))

\* A variant of HSVSector whose branches test "h <= bound" only
HSVSector_LeOnly(h) ==
    IF FLe(h, F0) THEN 1
    ELSE IF FLe(h, FFromInt(60)) THEN 2
    ELSE IF FLe(h, FFromInt(120)) THEN 3
    ELSE IF FLe(h, FFromInt(180)) THEN 4
    ELSE IF FLe(h, FFromInt(240)) THEN 5
    ELSE IF FLe(h, FFromInt(300)) THEN 6
    ELSE 0

\* The branch of _setHSV's if/elif ladder that hue h takes, 1 .. 6, and 0
\* when none does (r, g and b are then unbound)
HSVSector(h) ==
    IF FLe(h, F0) \/ FLt(h, FFromInt(60)) THEN 1
    ELSE IF FLe(h, FFromInt(60)) \/ FLt(h, FFromInt(120)) THEN 2
    ELSE IF FLe(h, FFromInt(120)) \/ FLt(h, FFromInt(180)) THEN 3
    ELSE IF FLe(h, FFromInt(180)) \/ FLt(h, FFromInt(240)) THEN 4
    ELSE IF FLe(h, FFromInt(240)) \/ FLt(h, FFromInt(300)) THEN 5
    ELSE IF FLe(h, FFromInt(300)) \/ FLt(h, FFromInt(360)) THEN 6
    ELSE 0

\* r, g, b as the branch sec of the ladder assigns them
HSVBranch(sec, c, x) ==
    CASE sec = 1 -> <<c, x, F0>>
      [] sec = 2 -> <<x, c, F0>>
      [] sec = 3 -> <<F0, c, x>>
      [] sec = 4 -> <<F0, x, c>>
      [] sec = 5 -> <<x, F0, c>>
      [] sec = 6 -> <<c, F0, x>>

\* [(r+m), (g+m), (b+m), a]
HSVShift(rgb, m, a) == [i \in 1..3 |-> FAdd(rgb[i], m)] \o <<a>>

HSVOfSector(sec, v, a, c, x) ==
    IF sec = 0 THEN Raise("UnboundLocalError")
    ELSE Ok("list", HSVShift(HSVBranch(sec, c, x), FSub(v, c), a))

HSVOfChroma(h, v, a, c, x) == HSVOfSector(HSVSector(h), v, a, c, x)

HSVOfValue(h, s, v, a, c) ==
    HSVOfChroma(h, v, a, c,
                FMul(c, FSub(F1, FAbs(FSub(FMod(FDiv(h, FFromInt(60)), FFromInt(2)), F1)))))

HSVOfScaled(h, s, v, a) == HSVOfValue(h, s, v, a, FMul(v, s))

\* Ok with the new _colour, or UnboundLocalError
_setHSV(h, s, v, a) == HSVOfScaled(h, FMul(s, F001), FMul(v, F001), a)

\* int(((1 - x - K) / (1 - K)) * 100.0), den being 1 - K
CMYKPercent(x, K, den) == PyInt(FMul(FDiv(FSub(FSub(F1, x), K), den), F100))

CMYKOfDen(colour, K, den) ==
    IF den = F0 THEN Raise("ZeroDivisionError")
    ELSE Ok("list", [i \in 1..3 |-> CMYKPercent(colour[i], K, den)] \o <<colour[4]>>)

CMYKOfK(colour, K) == CMYKOfDen(colour, K, FSub(F1, K))

\* Ok with <<C, M, Y, alpha>>, or ZeroDivisionError when 1 - K is zero
_getCMYK(colour) ==
    CMYKOfK(colour, FSub(F1, FMax(FMax(colour[1], colour[2]), colour[3])))

CMYKScale(cmy, _k, a) ==
    [i \in 1..3 |-> FMul(FSub(F1, FMul(cmy[i], F001)), _k)] \o <<a>>

_setCMYK(c, m, y, k, a) == CMYKScale(<<c, m, y>>, FSub(F1, FMul(k, F001)), a)

(***************************************************************************)
(* Hexadecimal strings.  A Python str is a sequence of one-character       *)
(* strings.                                                                *)
(***************************************************************************)
HexDigits == <<"0", "1", "2", "3", "4", "5", "6", "7",
               "8", "9", "a", "b", "c", "d", "e", "f">>
UpperHex  == <<"A", "B", "C", "D", "E", "F">>

IsHexDigit(c) == \E i \in 1..16 : HexDigits[i] = c
HexVal(c)     == (CHOOSE i \in 1..16 : HexDigits[i] = c) - 1

\* str.lower() on one character
LowerChar(c) ==
    IF \E i \in 1..6 : UpperHex[i] = c
    THEN HexDigits[10 + (CHOOSE i \in 1..6 : UpperHex[i] = c)]
    ELSE IF c = "Z" THEN "z" ELSE c

\* hex.replace("#", "").lower()
RECURSIVE StripLower(_)
StripLower(hex) ==
    IF hex = << >> THEN << >>
    ELSE IF Head(hex) = "#" THEN StripLower(Tail(hex))
    ELSE <<LowerChar(Head(hex))>> \o StripLower(Tail(hex))

\* int(s, 16) for a str of two characters; NotAnInt stands for ValueError.
\* int() strips white space, then takes a sign, then digits.
NotAnInt == -1000

ParseHexChars(c1, c2) ==
    IF IsHexDigit(c1) /\ IsHexDigit(c2) THEN 16 * HexVal(c1) + HexVal(c2)
    ELSE IF c1 \in {"+", " "} /\ IsHexDigit(c2) THEN HexVal(c2)
    ELSE IF c1 = "-" /\ IsHexDigit(c2) THEN -HexVal(c2)
    ELSE IF IsHexDigit(c1) /\ c2 = " " THEN HexVal(c1)
    ELSE NotAnInt

\* int(hex[i:i+2], 16), i counted from 1
ParseHex2(hex, i) == ParseHexChars(hex[i], hex[i + 1])

\* the hexadecimal digits of n > 0
RECURSIVE HexOf(_)
HexOf(n) ==
    IF n = 0 THEN << >> ELSE HexOf(n \div 16) \o <<HexDigits[(n % 16) + 1]>>

\* A variant of Format02x without the padding: "{:x}".format(n)
Format_x(n) == IF n < 0 THEN <<"-">> \o HexOf(-n) ELSE IF n = 0 THEN <<"0">> ELSE HexOf(n)

\* "{:02x}".format(n): at least two characters, the sign among them
Format02x(n) ==
    IF n < 0 THEN <<"-">> \o HexOf(-n)
    ELSE IF n = 0 THEN <<"0", "0">>
    ELSE IF n < 16 THEN <<"0">> \o HexOf(n)
    ELSE HexOf(n)

\* "{:02x}" on int(x * 255.0)
HexChannel(x) == Format02x(FTrunc(FMul(x, F255)))

RECURSIVE HexChannels(_, _)
HexChannels(colour, n) ==
    IF n = 0 THEN << >> ELSE HexChannels(colour, n - 1) \o HexChannel(colour[n])

_getHEX(colour, colour_space) ==
    IF colour_space = "HEX" THEN HexChannels(colour, 3) ELSE HexChannels(colour, 4)

\* [int(hex[i:i+2], 16) / 255.0 for i in (0, 2, ...)], n elements
HexBytes(hex, n) ==
    [j \in 1..n |-> FDiv(FFromInt(ParseHex2(hex, 2 * j - 1)), F255)]

HexParses(hex, n) == \A j \in 1..n : ParseHex2(hex, 2 * j - 1) # NotAnInt

\* hex is the str with "#" removed, in lower case
HexOfStripped(colour, hex) ==
    IF Len(hex) = 6
    THEN IF HexParses(hex, 3) THEN Ok("list", HexBytes(hex, 3) \o <<F1>>)
         ELSE Raise("ValueError")
    ELSE IF Len(hex) = 8
    THEN IF HexParses(hex, 4) THEN Ok("list", HexBytes(hex, 4))
         ELSE Raise("ValueError")
    ELSE Ok("list", colour)

\* Ok with the new _colour (the old one when the length is neither 6 nor
\* 8), or ValueError from int()
_setHEX(colour, hex) == HexOfStripped(colour, StripLower(hex))

(***************************************************************************)
(* LAColour.get and LAColour.set.  An argument value is [kind, val]: a     *)
(* list of numbers, a str, or None (the argument omitted).                 *)
(***************************************************************************)
PyList(val) == [kind |-> "list", val |-> val]
PyStr(val)  == [kind |-> "str", val |-> val]
PyNone      == [kind |-> "None", val |-> << >>]

\* A variant of SpaceOr that falls back on RGB, the default of the
\* constructor, and not on the colour space of the object
SpaceOr_RGB(creation_space, colour_space) ==
    IF colour_space = NoSpace THEN "RGB" ELSE colour_space

\* colour_space = self._colour_space if colour_space is None else colour_space
SpaceOr(creation_space, colour_space) ==
    IF colour_space = NoSpace THEN creation_space ELSE colour_space

GetIn(colour, colour_space) ==
    IF colour_space = "RGB" THEN Ok("list", _getRGB(colour))
    ELSE IF colour_space = "RGBFull" THEN Ok("list", _getRGBFull(colour))
    ELSE IF colour_space = "HSV" THEN Ok("list", _getHSV(colour))
    ELSE IF colour_space = "CMYK" THEN _getCMYK(colour)
    ELSE IF colour_space \in {"HEX", "HEXLONG"}
    THEN Ok("str", _getHEX(colour, colour_space))
    ELSE Ok("None", << >>)

\* get(colour_space): what the call returns or raises
get(colour, creation_space, colour_space) ==
    GetIn(colour, SpaceOr(creation_space, colour_space))

\* The setter that set() dispatches to: Ok with the new _colour, or the
\* exception raised before _colour is assigned.  arg.val is the list handed
\* over as *colour.
ApplySetter(colour, clamp_values, arg, colour_space) ==
    IF colour_space \in {"RGB", "RGBFull", "HSV"} /\ Len(arg.val) > 4
    THEN Raise("TypeError")
    ELSE IF colour_space = "CMYK" /\ Len(arg.val) > 5 THEN Raise("TypeError")
    ELSE IF colour_space = "RGB"
    THEN Ok("list", _setRGB(clamp_values, Arg(arg.val, 1, F0), Arg(arg.val, 2, F0),
                            Arg(arg.val, 3, F0), Arg(arg.val, 4, F1)))
    ELSE IF colour_space = "RGBFull"
    THEN Ok("list", _setRGBFull(clamp_values, Arg(arg.val, 1, F0), Arg(arg.val, 2, F0),
                                Arg(arg.val, 3, F0), Arg(arg.val, 4, F1)))
    ELSE IF colour_space = "HSV"
    THEN _setHSV(Arg(arg.val, 1, F0), Arg(arg.val, 2, F0), Arg(arg.val, 3, F0),
                 Arg(arg.val, 4, F1))
    ELSE IF colour_space = "CMYK"
    THEN Ok("list", _setCMYK(Arg(arg.val, 1, F0), Arg(arg.val, 2, F0),
                             Arg(arg.val, 3, F0), Arg(arg.val, 4, F0),
                             Arg(arg.val, 5, F1)))
    ELSE IF colour_space \in {"HEX", "HEXLONG"}
    THEN IF arg.kind = "str" THEN _setHEX(colour, arg.val)
         ELSE Raise("AttributeError")
    ELSE Ok("list", colour)

\* colour = self._colour if colour is None else colour
ColourOr(colour, arg) == IF arg.kind = "None" THEN PyList(colour) ELSE arg

\* put is what the setter did; the call ends with self.get(colour_space)
SetThenGet(colour, creation_space, colour_space, put) ==
    IF put.exc # "none" THEN [colour |-> colour, ret |-> put]
    ELSE [colour |-> put.val,
          ret    |-> get(put.val, creation_space, colour_space)]

\* set(colour, colour_space): [colour |-> _colour after the call,
\* ret |-> what the call returns or raises]
set(colour, clamp_values, creation_space, arg, colour_space) ==
    SetThenGet(colour, creation_space, colour_space,
               ApplySetter(colour, clamp_values, ColourOr(colour, arg), colour_space))

(***************************************************************************)
(* LAMColour: the colour is held by a host colour object, m_colour, an     *)
(* om2.MColor, whose four components are single-precision floats.  The     *)
(* host class is no part of the repository; of it the model has the        *)
(* constructor, setColor and getColor in the RGB colour model.  The HSV    *)
(* and CMYK methods of LAMColour call conversions of the host, and the     *)
(* model makes no such call.                                               *)
(***************************************************************************)
SinglePrecision == 24

\* the single-precision float nearest to x, as a Python float
Float32Of(f) == FRound(f.sgn, f.man, f.exp)

Float32(x) ==
    IF x.sgn = 0 THEN FZero
    ELSE Float32Of(FRoundLen(x.sgn, x.man, x.exp, Precision, SinglePrecision))

\* om2.MColor(): opaque black
MColor == <<F0, F0, F0, F1>>

\* m_colour.setColor([r, g, b, a], om2.MColor.kRGB)
setColor(rgba) == [i \in 1..4 |-> Float32(rgba[i])]

\* m_colour.getColor(om2.MColor.kRGB)
M_getRGB(m) == m

M_setRGB(r, g, b, a) == setColor(<<r, g, b, a>>)

\* [int(x * 255.0) for x in rgb]
M_getRGBFull(m) == [i \in 1..4 |-> PyInt(FMul(M_getRGB(m)[i], F255))]

M_setRGBFull(r, g, b, a) ==
    M_setRGB(FDiv(r, F255), FDiv(g, F255), FDiv(b, F255), a)

RECURSIVE FormatInts(_, _)
FormatInts(rgb, n) ==
    IF n = 0 THEN << >> ELSE FormatInts(rgb, n - 1) \o Format02x(FTrunc(rgb[n]))

M_getHEX(m, colour_space) ==
    IF colour_space = "HEX" THEN FormatInts(M_getRGBFull(m), 3)
    ELSE FormatInts(M_getRGBFull(m), 4)

\* re.match(r"^(([0-9A-Fa-f]{2}){3,4}|[0-9A-Fa-f]{3})$", hex)
IsHexChar(c) == IsHexDigit(c) \/ \E i \in 1..6 : UpperHex[i] = c

MatchesPattern(hex) ==
    /\ Len(hex) \in {3, 6, 8}
    /\ \A i \in 1..Len(hex) : IsHexChar(hex[i])

\* self._colour as _setHEX assigns it, hex matching the pattern
M_HexColour(colour, hex) ==
    IF Len(hex) = 6 THEN HexBytes(hex, 3) \o <<F1>>
    ELSE IF Len(hex) = 8 THEN HexBytes(hex, 4)
    ELSE colour

\* self._setRGB(*self._colour)
M_HexApply(colour) ==
    [colour |-> colour, m_colour |-> M_setRGB(colour[1], colour[2], colour[3], colour[4])]

M_HexOfStripped(colour, m, hex) ==
    IF MatchesPattern(hex) THEN M_HexApply(M_HexColour(colour, hex))
    ELSE [colour |-> colour, m_colour |-> m]

\* [colour |-> self._colour, m_colour |-> self.m_colour] after _setHEX
M_setHEX(colour, m, hex) == M_HexOfStripped(colour, m, StripLower(hex))

\* the inherited get, over the colour spaces the model calls it with
M_GetIn(m, colour_space) ==
    CASE colour_space = "RGB" -> Ok("list", M_getRGB(m))
      [] colour_space = "RGBFull" -> Ok("list", M_getRGBFull(m))
      [] colour_space \in {"HEX", "HEXLONG"} -> Ok("str", M_getHEX(m, colour_space))
      [] colour_space \in {"CMY", NoSpace} -> Ok("None", << >>)

M_get(m, creation_space, colour_space) ==
    M_GetIn(m, SpaceOr(creation_space, colour_space))

\* The setter the inherited set dispatches to, m being the host object:
\* Ok with [colour, m_colour], or the exception raised
M_ApplySetter(colour, m, arg, colour_space) ==
    CASE colour_space \in {"RGB", "RGBFull"} /\ Len(arg.val) > 4 -> Raise("TypeError")
      [] colour_space = "RGB" /\ Len(arg.val) <= 4 ->
            Ok("list", [colour |-> colour,
                        m_colour |-> M_setRGB(Arg(arg.val, 1, F0), Arg(arg.val, 2, F0),
                                              Arg(arg.val, 3, F0), Arg(arg.val, 4, F1))])
      [] colour_space = "RGBFull" /\ Len(arg.val) <= 4 ->
            Ok("list", [colour |-> colour,
                        m_colour |-> M_setRGBFull(Arg(arg.val, 1, F0), Arg(arg.val, 2, F0),
                                                  Arg(arg.val, 3, F0), Arg(arg.val, 4, F1))])
      [] colour_space \in {"HEX", "HEXLONG"} /\ arg.kind = "str" ->
            Ok("list", M_setHEX(colour, m, arg.val))
      [] colour_space \in {"HEX", "HEXLONG"} /\ arg.kind # "str" ->
            Raise("AttributeError")
      [] colour_space \in {"CMY", NoSpace} -> Ok("list", [colour |-> colour, m_colour |-> m])

\* LAMColour.set has no return statement: None, unless the inherited set
\* raises.  m is the host object the call has created.
M_SetThenGet(colour, m, creation_space, colour_space, put) ==
    IF put.exc # "none" THEN [colour |-> colour, m_colour |-> m, ret |-> put]
    ELSE [colour   |-> put.val.colour,
          m_colour |-> put.val.m_colour,
          ret      |-> IF M_get(put.val.m_colour, creation_space, colour_space).exc = "none"
                       THEN Ok("None", << >>)
                       ELSE M_get(put.val.m_colour, creation_space, colour_space)]

\* self.m_colour = om2.MColor(); super(LAMColour, self).set(colour, colour_space)
M_set(colour, creation_space, arg, colour_space) ==
    M_SetThenGet(colour, MColor, creation_space, colour_space,
                 M_ApplySetter(colour, MColor, ColourOr(colour, arg), colour_space))

(***************************************************************************)
(* The arguments the model calls set() and the constructors with.          *)
(***************************************************************************)
\* the number n / d, as Python computes it from the two ints
Frac(n, d) == FDiv(FFromInt(n), FFromInt(d))

\* lists of numbers, by the colour space they are meant for; some are out
\* of range and some have too many or too few elements
RGBLists ==
    { <<F0, F0, F0, F1>>,
      <<Frac(1, 2), Frac(1, 2), Frac(1, 2), F1>>,
      <<Frac(29, 100), Frac(29, 100), Frac(29, 100), Frac(1, 2)>>,
      <<F1, Frac(1, 2), Frac(1, 4), Frac(1, 2)>>,
      <<FFromInt(2), FFromInt(-1), Frac(1, 2), F1>>,
      <<Frac(1, 2), F1>>,
      <<F1, F1, F1, F1, F1>> }
RGBFullLists ==
    { <<F255, FFromInt(128), F0, F1>>,
      <<FFromInt(300), FFromInt(-5), F0, F1>> }
HSVLists ==
    { <<FFromInt(120), FFromInt(50), FFromInt(50), F1>>,
      <<FFromInt(2), F100, F100, F1>>,
      <<F0, FFromInt(200), FFromInt(200), F1>>,
      <<FFromInt(-10), FFromInt(50), FFromInt(50), Frac(1, 2)>>,
      <<FFromInt(400), FFromInt(50), FFromInt(50), F1>> }
CMYKLists ==
    { <<F0, F0, F0, FFromInt(50), F1>>,
      <<F0, F0, F0, F100, F1>>,
      <<FFromInt(5), F0, F0, F1, F1>>,
      <<F0, F0, F0, FFromInt(-50), F1>>,
      <<FFromInt(20), FFromInt(40), FFromInt(60), F0>>,
      <<F0, F0, F0, F0, F1, F1>> }

NumberCalls ==
    (RGBLists \X {"RGB"}) \cup (RGBFullLists \X {"RGBFull"})
        \cup (HSVLists \X {"HSV"}) \cup (CMYKLists \X {"CMYK"})
        \cup ({<<F1, Frac(1, 2), Frac(1, 4), Frac(1, 2)>>} \X {NoSpace, "CMY"})

\* strs, well formed and malformed
HexStrs ==
    { <<"f", "f", "8", "8", "0", "0">>,
      <<"#", "F", "F", "8", "8", "0", "0">>,
      <<"f", "f", "8", "8", "0", "0", "8", "0">>,
      <<"z", "z">>,
      <<"f", "f", "8", "8">>,
      <<"z", "z", "z", "z", "z", "z">>,
      <<"+", "f", "-", "f", " ", "f">>,
      << >> }
HexCalls ==
    (HexStrs \X {"HEX"})
        \cup ({<<"f", "f", "8", "8", "0", "0", "8", "0">>, <<"z", "z">>,
               <<"f", "f", "8", "8", "0", "0">>} \X {"HEXLONG"})

\* the calls made on a LAMColour
M_Spaces == {"RGB", "RGBFull", "HEX", "HEXLONG", "CMY", NoSpace}

M_NumberCalls ==
    (RGBLists \X {"RGB"}) \cup (RGBFullLists \X {"RGBFull"})
        \cup ({<<F1, Frac(1, 2), Frac(1, 4), Frac(1, 2)>>} \X {NoSpace, "CMY", "HEX"})

M_HexCalls == HexCalls \cup ({<<"f", "8", "0">>} \X {"HEX"})

\* Every value of a channel: x is one of 0 .. MaxChannel, and three or four
\* channels made of it take every value as x does
ChannelsOf(x, n) ==
    [j \in 1..n |-> CASE j = 1 -> x
                      [] j = 2 -> MaxChannel - x
                      [] j = 3 -> (7 * x) % (MaxChannel + 1)
                      [] j = 4 -> (13 * x + 5) % (MaxChannel + 1)]

Alphas == {F0, Frac(1, 3), F1}

\* [r, g, b, a] with integer channels
ByteList(x, a) == [j \in 1..3 |-> FFromInt(ChannelsOf(x, 3)[j])] \o <<a>>

\* [r, g, b, a] with channels in [0, 1]
UnitList(x, a) == [j \in 1..3 |-> Frac(ChannelsOf(x, 3)[j], MaxChannel)] \o <<a>>

\* the hexadecimal digit d, in upper case if upper
HexChar(d, upper) ==
    IF upper /\ d >= 10 THEN UpperHex[d - 9] ELSE HexDigits[d + 1]

\* n channels as 2n hexadecimal digits; style tells the case of the first
\* and of the second digit of each channel, and whether "#" leads
RECURSIVE HexDigitsOf(_, _, _)
HexDigitsOf(bytes, n, style) ==
    IF n = 0 THEN IF style[3] THEN <<"#">> ELSE << >>
    ELSE HexDigitsOf(bytes, n - 1, style)
             \o <<HexChar(bytes[n] \div 16, style[1]), HexChar(bytes[n] % 16, style[2])>>

(***************************************************************************)
(* The object: the attributes of a LAColour or LAMColour (m_colour is the  *)
(* empty tuple on a LAColour), and what the last call was, what it         *)
(* returned or raised, and what the attributes were before it.  aliased    *)
(* tells whether the list the last call returned, which the caller holds,  *)
(* is the very list object that _colour refers to.                         *)
(***************************************************************************)
VARIABLES _colour, _clamp_values, _colour_space, m_colour, call, ret, before, calls,
          aliased

vars ==
    <<_colour, _clamp_values, _colour_space, m_colour, call, ret, before, calls,
      aliased>>

\* the number of calls made on one object
MaxCalls == 2

Call(name, arg, colour_space) ==
    [name |-> name, arg |-> arg, colour_space |-> colour_space]

Before(colour, m) == [_colour |-> colour, m_colour |-> m]

\* _colour as __init__ assigns it before it calls set
InitialColour == <<F0, F0, F0, F1>>

\* The object once __init__ has returned, r being what its call of set did;
\* there is no object when set raises
Constructed(arg, colour_space, clamped, r, m) ==
    /\ r.ret.exc = "none"
    /\ _colour = r.colour
    /\ _clamp_values = clamped
    /\ _colour_space = colour_space
    /\ m_colour = m
    /\ call = Call("__init__", arg, colour_space)
    /\ ret = Ok("None", << >>)
    /\ before = Before(InitialColour, << >>)
    /\ calls = 0
    /\ aliased = FALSE

\* LAColour(colour, colour_space, clamped)
Construct(arg, colour_space, clamped) ==
    Constructed(arg, colour_space, clamped,
                set(InitialColour, clamped, colour_space, arg, colour_space),
                << >>)

Init ==
    \E clamped \in BOOLEAN,
       c \in { <<PyList(InitialColour), "RGB">>,
               <<PyList(<<FFromInt(120), FFromInt(50), FFromInt(50), F1>>), "HSV">>,
               <<PyStr(<<"f", "f", "8", "8", "0", "0">>), "HEX">> } :
        Construct(c[1], c[2], clamped)

\* r, returned by get(colour_space), is self._colour itself: _getRGB returns
\* the list and no copy of it.  m is the host object; a LAMColour's _getRGB
\* returns a list the host makes.
OwnList(r, colour_space, m) ==
    m = << >> /\ r.exc = "none" /\ SpaceOr(_colour_space, colour_space) = "RGB"

\* the state after self.set(colour, colour_space), r being what the call did
DoneSet(arg, colour_space, r, m) ==
    /\ _colour' = r.colour
    /\ m_colour' = m
    /\ ret' = r.ret
    /\ aliased' = OwnList(r.ret, colour_space, m)
    /\ call' = Call("set", arg, colour_space)
    /\ before' = Before(_colour, m_colour)
    /\ calls' = calls + 1
    /\ UNCHANGED <<_clamp_values, _colour_space>>

\* self.set(colour, colour_space) on a LAColour
DoSet(arg, colour_space) ==
    DoneSet(arg, colour_space,
            set(_colour, _clamp_values, _colour_space, arg, colour_space),
            m_colour)

SetNumbers ==
    /\ calls < MaxCalls
    /\ \E c \in NumberCalls : DoSet(PyList(c[1]), c[2])

SetHex ==
    /\ calls < MaxCalls
    /\ \E c \in HexCalls : DoSet(PyStr(c[1]), c[2])

SetOmitted ==
    /\ calls < MaxCalls
    /\ \E colour_space \in Colour \cup {NoSpace} : DoSet(PyNone, colour_space)

\* A variant of DoneGet in which get keeps the list it has computed as the
\* stored colour
DoneGet_Keeping(colour_space, r) ==
    /\ ret' = r
    /\ aliased' = OwnList(r, colour_space, m_colour)
    /\ call' = Call("get", PyNone, colour_space)
    /\ before' = Before(_colour, m_colour)
    /\ calls' = calls + 1
    /\ _colour' = IF r.exc = "none" /\ r.kind = "list" THEN r.val ELSE _colour
    /\ UNCHANGED <<_clamp_values, _colour_space, m_colour>>

\* the state after self.get(colour_space), r being what the call did
DoneGet(colour_space, r) ==
    /\ ret' = r
    /\ aliased' = OwnList(r, colour_space, m_colour)
    /\ call' = Call("get", PyNone, colour_space)
    /\ before' = Before(_colour, m_colour)
    /\ calls' = calls + 1
    /\ UNCHANGED <<_colour, _clamp_values, _colour_space, m_colour>>

\* self.get(colour_space) on a LAColour
Get ==
    /\ calls < MaxCalls
    /\ \E colour_space \in Colour \cup {NoSpace} :
           DoneGet(colour_space, get(_colour, _colour_space, colour_space))

\* The caller assigns to an element of the list the last call returned:
\* returned[i] = 0.75.  The assignment is to _colour too when the list is
\* the object's own.
Modify ==
    /\ calls < MaxCalls
    /\ ret.exc = "none"
    /\ ret.kind = "list"
    /\ \E i \in 1..Len(ret.val) :
           /\ ret' = [ret EXCEPT !.val[i] = Frac(3, 4)]
           /\ _colour' = IF aliased THEN [_colour EXCEPT ![i] = Frac(3, 4)] ELSE _colour
           /\ call' = Call("modify", PyList(<<FFromInt(i - 1), Frac(3, 4)>>), NoSpace)
    /\ before' = Before(_colour, m_colour)
    /\ calls' = calls + 1
    /\ UNCHANGED <<_clamp_values, _colour_space, m_colour, aliased>>

Next == SetNumbers \/ SetHex \/ SetOmitted \/ Get \/ Modify

Spec == Init /\ [][Next]_vars

(***************************************************************************)
(* One set() with a value of its colour space, and the get() that follows  *)
(* it: the channels take every value 0 .. MaxChannel, the hue every        *)
(* sector of the circle and its borders.                                   *)
(***************************************************************************)
InitDefault ==
    \E clamped \in BOOLEAN : Construct(PyList(InitialColour), "RGB", clamped)

SetRGB ==
    /\ calls = 0
    /\ \E x \in 0..MaxChannel, a \in Alphas : DoSet(PyList(UnitList(x, a)), "RGB")

SetRGBFull ==
    /\ calls = 0
    /\ \E x \in 0..MaxChannel, a \in Alphas : DoSet(PyList(ByteList(x, a)), "RGBFull")

SetHEX ==
    /\ calls = 0
    /\ \E x \in 0..MaxChannel, style \in BOOLEAN \X BOOLEAN \X BOOLEAN :
           DoSet(PyStr(HexDigitsOf(ChannelsOf(x, 3), 3, style)), "HEX")

SetHEXLONG ==
    /\ calls = 0
    /\ \E x \in 0..MaxChannel, style \in BOOLEAN \X BOOLEAN \X BOOLEAN :
           DoSet(PyStr(HexDigitsOf(ChannelsOf(x, 4), 4, style)), "HEXLONG")

\* hues from -1 to 361 in steps of a half, at full saturation and value
SetHSV ==
    /\ calls = 0
    /\ \E k \in -2..722 : DoSet(PyList(<<Frac(k, 2), F100, F100, F1>>), "HSV")

\* self.get(colour_space), colour_space being the one of the set() before
GetBack ==
    /\ calls = 1
    /\ call.name = "set"
    /\ DoneGet(call.colour_space, get(_colour, _colour_space, call.colour_space))

NextRoundTrip == SetRGB \/ SetRGBFull \/ SetHEX \/ SetHEXLONG \/ SetHSV \/ GetBack

SpecRoundTrip == InitDefault /\ [][NextRoundTrip]_vars

(***************************************************************************)
(* A LAMColour.                                                            *)
(***************************************************************************)
\* what __init__'s call of set did, as Constructed takes it
M_Constructed(arg, colour_space, clamped, r) ==
    Constructed(arg, colour_space, clamped, r, r.m_colour)

\* LAMColour(colour, colour_space, clamped)
M_Construct(arg, colour_space, clamped) ==
    M_Constructed(arg, colour_space, clamped,
                  M_set(InitialColour, colour_space, arg, colour_space))

M_Init ==
    \E clamped \in BOOLEAN,
       c \in { <<PyList(InitialColour), "RGB">>,
               <<PyStr(<<"f", "f", "8", "8", "0", "0">>), "HEX">> } :
        M_Construct(c[1], c[2], clamped)

M_DoneSet(arg, colour_space, r) == DoneSet(arg, colour_space, r, r.m_colour)

\* self.set(colour, colour_space) on a LAMColour
M_DoSet(arg, colour_space) ==
    M_DoneSet(arg, colour_space, M_set(_colour, _colour_space, arg, colour_space))

M_SetNumbers ==
    /\ calls < MaxCalls
    /\ \E c \in M_NumberCalls : M_DoSet(PyList(c[1]), c[2])

M_SetHex ==
    /\ calls < MaxCalls
    /\ \E c \in M_HexCalls : M_DoSet(PyStr(c[1]), c[2])

M_SetOmitted ==
    /\ calls < MaxCalls
    /\ \E colour_space \in M_Spaces : M_DoSet(PyNone, colour_space)

\* self.get(colour_space) on a LAMColour
M_Get ==
    /\ calls < MaxCalls
    /\ \E colour_space \in M_Spaces :
           DoneGet(colour_space, M_get(m_colour, _colour_space, colour_space))

M_Next == M_SetNumbers \/ M_SetHex \/ M_SetOmitted \/ M_Get

M_Spec == M_Init /\ [][M_Next]_vars

(***************************************************************************)
(* The properties.  They speak of the last call (call), of what it         *)
(* returned or raised (ret), and of the attributes before it (before) and  *)
(* after it.                                                               *)
(***************************************************************************)
IsSet == call.name = "set"

InUnit(x) == FLe(F0, x) /\ FLe(x, F1)

\* x is an integer lo <= x <= hi
IsIntIn(x, lo, hi) ==
    /\ FFromInt(FTrunc(x)) = x
    /\ FLe(FFromInt(lo), x)
    /\ FLe(x, FFromInt(hi))

\* s with every "#" removed
WithoutHash(s) == SelectSeq(s, LAMBDA c : c # "#")

HexSpaces == {"HEX", "HEXLONG"}

\* the call was given a str for a hexadecimal colour space
IsHexCall == call.arg.kind = "str" /\ call.colour_space \in HexSpaces

\* a str of the wrong length once "#" is removed, or with a character that
\* is no hexadecimal digit
MalformedHex(s) ==
    \/ Len(WithoutHash(s)) \notin {6, 8}
    \/ \E i \in 1..Len(WithoutHash(s)) : ~IsHexChar(WithoutHash(s)[i])

\* the number of arguments the setter of a colour space takes
Arity(colour_space) == IF colour_space = "CMYK" THEN 5 ELSE 4

NumericSpaces == {"RGB", "RGBFull", "HSV", "CMYK"}

\* the call was given a list of numbers for a numeric colour space
IsNumericCall == call.arg.kind = "list" /\ call.colour_space \in NumericSpaces

\* C1: on a colour constructed with clamping enabled, a set call with
\* numbers in a supported colour space leaves each of the four stored
\* components in [0, 1], whatever the numbers
C1_ClampedStaysInUnit ==
    (/\ _clamp_values
     /\ IsSet
     /\ IsNumericCall
     /\ \A i \in 1..4 : InUnit(before._colour[i]))
        => \A i \in 1..4 : InUnit(_colour[i])

\* c, m, y, k percentages in 0 .. 100 and an alpha in [0, 1]
ValidCMYK(x) ==
    /\ Len(x) = 5
    /\ \A i \in 1..4 : FLe(F0, x[i]) /\ FLe(x[i], F100)
    /\ InUnit(x[5])

\* C2: get(CMYK) immediately after set(x, CMYK), x a valid CMYK value,
\* returns a value equal to x, with the same K and the same arity
C2_CMYKRoundTrip ==
    (IsSet /\ call.arg.kind = "list" /\ call.colour_space = "CMYK"
        /\ ValidCMYK(call.arg.val))
        => /\ ret = Ok("list", call.arg.val)
           /\ get(_colour, _colour_space, "CMYK") = Ok("list", call.arg.val)

\* C3: get(CMYK) on pure black (r = g = b = 0) completes and returns
\* C = M = Y = 0 with K = 100
C3_BlackAsCMYK ==
    (/\ call.name = "get"
     /\ call.colour_space = "CMYK"
     /\ \A i \in 1..3 : _colour[i] = F0)
        => /\ ret.exc = "none"
           /\ ret.kind = "list"
           /\ Len(ret.val) >= 4
           /\ \A i \in 1..3 : ret.val[i] = F0
           /\ ret.val[4] = F100

\* the input of the call is malformed: a malformed hexadecimal str, or a
\* list of numbers of the wrong arity for its colour space
MalformedCall ==
    \/ IsHexCall /\ MalformedHex(call.arg.val)
    \/ IsNumericCall /\ Len(call.arg.val) # Arity(call.colour_space)

\* C4: set returns normally for every malformed input
C4_SetNeverRaises == (IsSet /\ MalformedCall) => ret.exc = "none"

\* C5: a set call with a malformed hexadecimal str leaves the four stored
\* components as they were before the call
C5_MalformedHexKeepsColour ==
    (IsSet /\ IsHexCall /\ MalformedHex(call.arg.val)) => _colour = before._colour

\* C6: on a LAMColour, a set call whose hexadecimal str the validation
\* pattern rejects leaves the host colour object holding the colour it held
\* before the call
C6_RejectedHexKeepsHostColour ==
    (IsSet /\ IsHexCall /\ ~MatchesPattern(StripLower(call.arg.val)))
        => m_colour = before.m_colour

\* C7: set with the colour argument omitted leaves the four stored
\* components as they were, for every colour_space argument
C7_OmittedColourIsNoOp ==
    (IsSet /\ call.arg.kind = "None") => _colour = before._colour

\* four channels in [0, 1]
InRangeRGB(x) == Len(x) = 4 /\ \A i \in 1..4 : InUnit(x[i])

\* integer channels in 0 .. MaxChannel and an alpha in [0, 1]
InRangeRGBFull(x) ==
    /\ Len(x) = 4
    /\ \A i \in 1..3 : IsIntIn(x[i], 0, MaxChannel)
    /\ InUnit(x[4])

\* C8: get(RGB) after set(x, RGB) equals x for x with four channels in
\* [0, 1]; get(RGBFull) after set(x, RGBFull) equals x for x with integer
\* channels in 0 .. 255 and alpha in [0, 1], and the stored channels in
\* between are x / 255
C8_RGBRoundTrip ==
    /\ (IsSet /\ call.arg.kind = "list" /\ call.colour_space = "RGB"
            /\ InRangeRGB(call.arg.val))
           => /\ ret = Ok("list", call.arg.val)
              /\ get(_colour, _colour_space, "RGB") = Ok("list", call.arg.val)
    /\ (IsSet /\ call.arg.kind = "list" /\ call.colour_space = "RGBFull"
            /\ InRangeRGBFull(call.arg.val))
           => /\ ret = Ok("list", call.arg.val)
              /\ get(_colour, _colour_space, "RGBFull") = Ok("list", call.arg.val)
              /\ \A i \in 1..3 : _colour[i] = FDiv(call.arg.val[i], F255)
              /\ _colour[4] = call.arg.val[4]

\* a set of RGBFull channels that are neither 0 nor 255 has been read back
C8_Witness ==
    /\ IsSet
    /\ call.arg.kind = "list"
    /\ call.colour_space = "RGBFull"
    /\ call.arg.val[1] = FFromInt(200)
    /\ InRangeRGBFull(call.arg.val)
    /\ _colour[1] = Frac(200, 255)
    /\ ret = Ok("list", call.arg.val)

\* an integer hue in [0, 360), integer percentages s, v in 1 .. 100, and
\* an alpha in [0, 1]
NonDegenerateHSV(x) ==
    /\ Len(x) = 4
    /\ IsIntIn(x[1], 0, 359)
    /\ IsIntIn(x[2], 1, 100)
    /\ IsIntIn(x[3], 1, 100)
    /\ InUnit(x[4])

\* C9: get(HSV) immediately after set([h, s, v, a], HSV) returns
\* [h, s, v, a] for every non-degenerate HSV value
C9_HSVRoundTrip ==
    (IsSet /\ call.arg.kind = "list" /\ call.colour_space = "HSV"
        /\ NonDegenerateHSV(call.arg.val))
        => /\ ret = Ok("list", call.arg.val)
           /\ get(_colour, _colour_space, "HSV") = Ok("list", call.arg.val)

\* s is n hexadecimal digits in any case, with or without a leading "#"
IsHexColour(s, n) ==
    /\ Len(s) \in {n, n + 1}
    /\ Len(s) = n + 1 => s[1] = "#"
    /\ Len(WithoutHash(s)) = n
    /\ \A i \in 1..n : IsHexChar(WithoutHash(s)[i])

\* x in lower case with "#" removed
Lowered(x) == [i \in 1..Len(WithoutHash(x)) |-> LowerChar(WithoutHash(x)[i])]

\* C10: get(HEX) after set(x, HEX), x being 6 hexadecimal digits in any
\* case with or without a leading "#", returns x in lower case with the
\* "#" removed; so does get(HEXLONG) after set(x, HEXLONG) for 8 digits
C10_HexRoundTrip ==
    /\ (IsSet /\ call.arg.kind = "str" /\ call.colour_space = "HEX"
            /\ IsHexColour(call.arg.val, 6))
           => /\ ret = Ok("str", Lowered(call.arg.val))
              /\ get(_colour, _colour_space, "HEX") = Ok("str", Lowered(call.arg.val))
    /\ (IsSet /\ call.arg.kind = "str" /\ call.colour_space = "HEXLONG"
            /\ IsHexColour(call.arg.val, 8))
           => /\ ret = Ok("str", Lowered(call.arg.val))
              /\ get(_colour, _colour_space, "HEXLONG") = Ok("str", Lowered(call.arg.val))

\* eight digits in mixed case after a "#" have been set and read back in
\* lower case
C10_Witness ==
    /\ IsSet
    /\ call.arg.kind = "str"
    /\ call.colour_space = "HEXLONG"
    /\ IsHexColour(call.arg.val, 8)
    /\ SubSeq(call.arg.val, 1, 3) = <<"#", "A", "b">>
    /\ ret.kind = "str"
    /\ SubSeq(ret.val, 1, 2) = <<"a", "b">>

\* C11: get() with no colour space returns what get(S0) returns, S0 being
\* the colour space given to the constructor, after any sequence of calls:
\* _colour_space is S0 when the constructor returns, no call changes it,
\* and get() returns the colour read in it
C11_GetDefaultsToCreationSpace ==
    /\ [](call.name = "__init__" => _colour_space = call.colour_space)
    /\ [][_colour_space' = _colour_space]_vars
    /\ [](call.name = "get" /\ call.colour_space = NoSpace
            => ret = get(_colour, _colour_space, _colour_space))

\* a colour created in HSV and since set to grey in another space has been
\* read with get(), which returned it as HSV
C11_Witness ==
    /\ call.name = "get"
    /\ call.colour_space = NoSpace
    /\ _colour_space = "HSV"
    /\ _colour = <<Frac(1, 2), Frac(1, 2), Frac(1, 2), F1>>
    /\ ret = Ok("list", <<F0, F0, FFromInt(50), F1>>)

\* C12: set(x) with a colour and no colour space leaves the stored
\* components that set(x, S0) produces, S0 being the colour space the
\* object was created in
C12_SetDefaultsToCreationSpace ==
    (IsSet /\ call.arg.kind # "None" /\ call.colour_space = NoSpace)
        => _colour = set(before._colour, _clamp_values, _colour_space,
                         call.arg, _colour_space).colour

\* C13: a get call, whatever its colour space argument, leaves the four
\* stored components, the clamp flag and the creation colour space as they
\* were, and no call at all changes the clamp flag
C13_GetHasNoSideEffects ==
    /\ [][call'.name = "get" =>
             /\ _colour' = _colour
             /\ _clamp_values' = _clamp_values
             /\ _colour_space' = _colour_space]_vars
    /\ [][_clamp_values' = _clamp_values]_vars

\* a get in a space other than the stored one has followed another call
\* and returned a list that differs from the stored components, which are
\* as before
C13_Witness ==
    /\ call.name = "get"
    /\ call.colour_space = "HSV"
    /\ calls = MaxCalls
    /\ ret.exc = "none"
    /\ ret.val # _colour
    /\ _colour = before._colour

\* C14: what set(colour, colour_space) returns is what a get(colour_space)
\* issued immediately afterwards returns, for every input and every colour
\* space, an input rejected as malformed included
C14_SetReturnsGet ==
    IsSet => ret = get(_colour, _colour_space, call.colour_space)

\* the stored r, g and b are one value, which lies in [0, 1]
IsGrey(colour) ==
    /\ colour[1] = colour[2]
    /\ colour[2] = colour[3]
    /\ InUnit(colour[1])

\* C15: whenever the stored r, g and b are equal and in [0, 1], get(HSV)
\* returns hue 0, saturation 0, the stored channel times 100 truncated to
\* an integer as value, and the stored alpha
C15_AchromaticHSV ==
    (call.name = "get" /\ SpaceOr(_colour_space, call.colour_space) = "HSV"
        /\ IsGrey(_colour))
        => ret = Ok("list", <<F0, F0, PyInt(FMul(_colour[1], F100)), _colour[4]>>)

\* get(HSV) of the grey (0.29, 0.29, 0.29, 0.5), whose percentage
\* 28.999999999999996 is truncated to 28
C15_Witness ==
    /\ call.name = "get"
    /\ call.colour_space = "HSV"
    /\ _colour = <<Frac(29, 100), Frac(29, 100), Frac(29, 100), Frac(1, 2)>>
    /\ ret = Ok("list", <<F0, F0, FFromInt(28), Frac(1, 2)>>)

\* r is a str of exactly n lower-case hexadecimal digits
IsHexStr(r, n) ==
    /\ r.exc = "none"
    /\ r.kind = "str"
    /\ Len(r.val) = n
    /\ \A i \in 1..Len(r.val) : IsHexDigit(r.val[i])

\* C16: in every state reached through set calls, clamping enabled or
\* not, get(HEX) returns exactly 6 lower-case hexadecimal digits and
\* get(HEXLONG) exactly 8, with no "#" and no separator
C16_HexLength ==
    /\ (call.name = "get" /\ SpaceOr(_colour_space, call.colour_space) = "HEX")
           => IsHexStr(ret, 6)
    /\ (call.name = "get" /\ SpaceOr(_colour_space, call.colour_space) = "HEXLONG")
           => IsHexStr(ret, 8)

\* the sector of hue h under the ladder h < 60, h < 120, ..., h < 360, and
\* 0 when no comparison holds
SimpleLadder(h) ==
    IF FLt(h, FFromInt(60)) THEN 1
    ELSE IF FLt(h, FFromInt(120)) THEN 2
    ELSE IF FLt(h, FFromInt(180)) THEN 3
    ELSE IF FLt(h, FFromInt(240)) THEN 4
    ELSE IF FLt(h, FFromInt(300)) THEN 5
    ELSE IF FLt(h, FFromInt(360)) THEN 6
    ELSE 0

\* the call was set([h, s, v, a], HSV)
IsSetHSV == IsSet /\ call.arg.kind = "list" /\ call.colour_space = "HSV"

\* C17: for every hue h, _setHSV's ladder with its redundant conditions
\* takes the branch the ladder h < 60, h < 120, ..., h < 360 takes, and a
\* hue in [0, 360) takes exactly one branch, so that set returns a colour
C17_SectorIsSimpleLadder ==
    IsSetHSV =>
        /\ HSVSector(call.arg.val[1]) = SimpleLadder(call.arg.val[1])
        /\ (FLe(F0, call.arg.val[1]) /\ FLt(call.arg.val[1], FFromInt(360)))
               => (HSVSector(call.arg.val[1]) \in 1..6 /\ ret.exc = "none")

\* set([59.5, 100, 100, 1], HSV) has taken the first branch and stored
\* the colour that get(HSV) reads as hue 59
C17_Witness ==
    /\ IsSetHSV
    /\ call.arg.val[1] = Frac(119, 2)
    /\ HSVSector(call.arg.val[1]) = 1
    /\ ret = Ok("list", <<FFromInt(59), F100, F100, F1>>)

\* C18: a sequence that get or set has returned is independent of the
\* stored components: after the caller has assigned to one of its elements,
\* get returns in every colour space what it returned before the assignment
C18_ReturnedListIsIndependent ==
    call.name = "modify" =>
        \A colour_space \in Colour \cup {NoSpace} :
            get(_colour, _colour_space, colour_space)
                = get(before._colour, _colour_space, colour_space)

=============================================================================
